---- MODULE Spec2Model ----
(***************************************************************************)
(* Session registry and streamed-generation state machine of the chat      *)
(* client (src/App.tsx), with the adapter loop of streamGeminiResponse     *)
(* (src/unnamed/part_000) and the guards of the Composer and ChatMessages  *)
(* components that decide when a send or an edit reaches App.              *)
(*                                                                         *)
(* One action is one JavaScript task: an event handler or a promise        *)
(* continuation, together with the render it causes and the effects React  *)
(* flushes before the next handler runs.                                   *)
(***************************************************************************)
EXTENDS Integers, Sequences, FiniteSets, TLC

\* ------------------------------------------------------------------ bounds
MaxIds == 4        \* uuidv4() values drawn in one run
MaxSessions == 2   \* sessions stored at once
MaxInvocations == 2   \* generateResponse calls in one run
MaxClock == 1      \* last value of Date.now()
EditMaxIds == 6    \* ids drawn in a run of SpecEdit
EditMaxInvocations == 3   \* generateResponse calls in a run of SpecEdit
MaxDeltas == 2     \* non-empty text chunks of one stream
EditMaxDeltas == 1 \* non-empty text chunks of one stream in a run of SpecEdit
StreamMaxIds == 3  \* ids drawn in a run of SpecStream
StreamMaxInvocations == 1   \* generateResponse calls in a run of SpecStream
RegMaxIds == 5     \* ids drawn in a run of SpecRegistry
RegMaxSessions == 3   \* sessions stored at once in a run of SpecRegistry
RegMaxInvocations == 1   \* generateResponse calls in a run of SpecRegistry
BootMaxIds == 6    \* greatest id of a run of SpecBoot
BootMaxSessions == 2   \* sessions stored at once in a run of SpecBoot
BootMaxInvocations == 1   \* generateResponse calls in a run of SpecBoot
LiveMaxIds == 6    \* ids drawn in a run of SpecLive
LiveMaxSessions == 2   \* sessions stored at once in a run of SpecLive
LiveMaxInvocations == 2   \* generateResponse calls in a run of SpecLive
OrderMaxIds == 5   \* ids drawn in a run of SpecOrder
OrderMaxSessions == 2   \* sessions stored at once in a run of SpecOrder
OrderMaxInvocations == 2   \* generateResponse calls in a run of SpecOrder
PropMaxIds == 4    \* ids drawn in a run of SpecProp
PropMaxSessions == 2   \* sessions stored at once in a run of SpecProp
PropMaxInvocations == 2   \* generateResponse calls in a run of SpecProp
SetMaxIds == 3     \* ids drawn in a run of SpecSettings
SetMaxInvocations == 1   \* generateResponse calls in a run of SpecSettings
StampMaxIds == 4   \* ids drawn in a run of SpecStamp
StampMaxSessions == 2   \* sessions stored at once in a run of SpecStamp
StampMaxInvocations == 2   \* generateResponse calls in a run of SpecStamp

\* --------------------------------------------------------------- constants
Null == 0          \* null of string | null; ids are 1, 2, ...
FLASH == "gemini-3-flash-preview"
PRO == "gemini-3-pro-preview"
ModelIds == {FLASH, PRO}
NewChat == "New Chat"
ErrorText == "Sorry, I encountered an error processing your request. Please try again."
NoMeta == "undefined"   \* chunk without candidates[0].groundingMetadata

\* inputs
SendInputs == {<<"", 0>>, <<"", 1>>, <<"hi", 0>>}   \* composer input, attachments.length
EditTexts == {"hey"}           \* editContent when "Save & Submit" is clicked
ChunkTexts == {"", "a", "b"}   \* chunk.text ("" also stands for undefined)
Metas == {"g1", "g2"}          \* groundingMetadata objects
TitleTexts == {"", "T"}        \* response.text of the title request

VARIABLES
    sessions,          \* useState<ChatSession[]>
    currentSessionId,  \* useState<string | null>
    currentModel,      \* useState<ModelId>
    enableSearch,      \* useState(false)
    enableThinking,    \* useState(false)
    isLoading,         \* useState(false)
    editingId,         \* ChatMessages: useState<string | null>
    invocations,       \* generateResponse calls, in start order, with their locals
    titleRequests,     \* generateTitle promises not yet resolved
    stored,            \* localStorage item 'chat_sessions'
    fatal,             \* the first render threw: nothing is mounted
    nextId,            \* next value of uuidv4()
    now,               \* Date.now()
    lastStep           \* history variable: the handler that ran last

vars == <<sessions, currentSessionId, currentModel, enableSearch, enableThinking,
          isLoading, editingId, invocations, titleRequests, stored, fatal, nextId, now,
          lastStep>>

\* ----------------------------------------------------------------- helpers
\* { ...msg, f: v, ... }
Spread(msg, upd) ==
    [f \in DOMAIN msg \cup DOMAIN upd |-> IF f \in DOMAIN upd THEN upd[f] ELSE msg[f]]

\* arr.findIndex(x => x.id === id), 1-based; 0 when absent (-1 in the code)
IndexOfId(arr, id) ==
    IF \E k \in 1..Len(arr) : arr[k].id = id
    THEN CHOOSE k \in 1..Len(arr) : arr[k].id = id /\ \A j \in 1..(k - 1) : arr[j].id # id
    ELSE 0

SessionIds(ss) == {ss[k].id : k \in 1..Len(ss)}

\* prev.find(s => s.id === id); only used where the session exists
FindSession(ss, id) == ss[IndexOfId(ss, id)]

HasSession(ss, id) == id \in SessionIds(ss)

RECURSIVE Concat(_)
Concat(ds) == IF ds = <<>> THEN "" ELSE Head(ds) \o Concat(Tail(ds))

\* input.trim() === ''
IsBlank(text) == text \in {"", " "}

\* ------------------------------------------------------------- persistence
NoItem == "<no item>"   \* localStorage.getItem('chat_sessions') of an absent key: null

JsonString(s) == "\"" \o s \o "\""

JsonBoolean(b) == IF b THEN "true" ELSE "false"

RECURSIVE JsonJoin(_)
JsonJoin(items) ==
    IF items = <<>> THEN ""
    ELSE IF Len(items) = 1 THEN items[1]
    ELSE Head(items) \o "," \o JsonJoin(Tail(items))

JsonArray(items) == "[" \o JsonJoin(items) \o "]"

\* JSON.stringify of a ChatMessage: own properties in insertion order (the literal's
\* keys, then those a spread added); properties never set are left out
JsonMessage(m) ==
    "{\"id\":" \o JsonString(ToString(m.id))
    \o ",\"role\":" \o JsonString(m.role)
    \o ",\"content\":" \o JsonString(m.content)
    \o ",\"timestamp\":" \o ToString(m.timestamp)
    \o (IF "isThinking" \in DOMAIN m
        THEN ",\"isThinking\":" \o JsonBoolean(m.isThinking) ELSE "")
    \o (IF "isReasoning" \in DOMAIN m
        THEN ",\"isReasoning\":" \o JsonBoolean(m.isReasoning) ELSE "")
    \o (IF "groundingMetadata" \in DOMAIN m
        THEN ",\"groundingMetadata\":" \o JsonString(m.groundingMetadata) ELSE "")
    \o "}"

\* JSON.stringify of a ChatSession
JsonSession(s) ==
    "{\"id\":" \o JsonString(ToString(s.id))
    \o ",\"title\":" \o JsonString(s.title)
    \o ",\"messages\":"
    \o JsonArray([k \in 1..Len(s.messages) |-> JsonMessage(s.messages[k])])
    \o ",\"updatedAt\":" \o ToString(s.updatedAt)
    \o "}"

\* JSON.stringify(sessions)
JSONstringify(ss) == JsonArray([k \in 1..Len(ss) |-> JsonSession(ss[k])])

\* faulty variant: the item is written once, when the key is absent
persistEffect_Once(item, changed, ss) ==
    IF item = NoItem THEN JSONstringify(ss) ELSE item

\* useEffect(() => localStorage.setItem('chat_sessions', JSON.stringify(sessions)),
\* [sessions]): runs after the first render and after each render in which
\* sessions is another array than in the previous one; yields the item it leaves
persistEffect(item, changed, ss) ==
    IF changed THEN JSONstringify(ss) ELSE item

\* ---------------------------------------------------------------- registry
\* the ChatSession literal of createNewSession
NewSession(id, t) == [id |-> id, title |-> NewChat, messages |-> <<>>, updatedAt |-> t]

\* faulty variant: the new session is put after the stored ones
createNewSession_AtEnd(ss, cur, id, t) ==
    [sessions |-> ss \o <<NewSession(id, t)>>, currentSessionId |-> id, used |-> 1]

\* faulty variant: the new session is stored and not made current
createNewSession_NotCurrent(ss, cur, id, t) ==
    [sessions |-> <<NewSession(id, t)>> \o ss, currentSessionId |-> cur, used |-> 1]

\* createNewSession: setSessions(prev => [newSession, ...prev]); setCurrentSessionId(id)
createNewSession(ss, cur, id, t) ==
    [sessions |-> <<NewSession(id, t)>> \o ss, currentSessionId |-> id, used |-> 1]

\* faulty variant: the effect leaves an empty registry empty
EnsureSessionEffect_NoCreate(oldLen, ss, cur, id, t) ==
    IF Len(ss) # oldLen /\ Len(ss) > 0 /\ cur = Null
    THEN [sessions |-> ss, currentSessionId |-> ss[1].id, used |-> 0]
    ELSE [sessions |-> ss, currentSessionId |-> cur, used |-> 0]

\* useEffect(..., [sessions.length]): runs after a render in which sessions.length
\* differs from the previous render's. The render that follows its own
\* createNewSession() runs it once more, with length 1 and a current id: no change.
EnsureSessionEffect(oldLen, ss, cur, id, t) ==
    IF Len(ss) = oldLen THEN [sessions |-> ss, currentSessionId |-> cur, used |-> 0]
    ELSE IF Len(ss) = 0 THEN createNewSession(ss, cur, id, t)
    ELSE IF cur = Null THEN [sessions |-> ss, currentSessionId |-> ss[1].id, used |-> 0]
    ELSE [sessions |-> ss, currentSessionId |-> cur, used |-> 0]

\* The render after a handler that left (ss, cur) and drew `used` ids, followed by
\* the effects of that render and of the render createNewSession() causes, if the
\* effect called it. A render of a session list does not throw.
Commit(ss, cur, used) ==
    LET r == EnsureSessionEffect(Len(sessions), ss, cur, nextId + used, now) IN
    /\ sessions' = r.sessions
    /\ currentSessionId' = r.currentSessionId
    /\ nextId' = nextId + used + r.used
    /\ stored' = persistEffect(persistEffect(stored, ss # sessions, ss),
                                r.sessions # ss, r.sessions)
    /\ fatal' = fatal

\* const currentSession = sessions.find(s => s.id === currentSessionId) || sessions[0]
HasCurrentSession(ss, cur) == Len(ss) > 0

\* faulty variant: the first stored session is displayed, whatever the current id
currentSession_First(ss, cur) == ss[1]

currentSession(ss, cur) == IF HasSession(ss, cur) THEN FindSession(ss, cur) ELSE ss[1]

\* faulty variant: the filter keeps the session it should drop
deleteFilter_Inverted(ss, sessionId) == SelectSeq(ss, LAMBDA s : s.id = sessionId)

\* deleteSession: prev.filter(s => s.id !== sessionId)
deleteFilter(ss, sessionId) == SelectSeq(ss, LAMBDA s : s.id # sessionId)

\* faulty variant: every deletion clears the current id
deleteCurrent_Always(cur, sessionId) == Null

\* faulty variant: no deletion clears the current id
deleteCurrent_Never(cur, sessionId) == cur

\* deleteSession: if (currentSessionId === sessionId) setCurrentSessionId(null)
deleteCurrent(cur, sessionId) == IF cur = sessionId THEN Null ELSE cur

\* faulty variant: the messages are replaced and updatedAt is left
updateSessionMessages_NoStamp(ss, sessionId, newMessages, t) ==
    [k \in 1..Len(ss) |->
        IF ss[k].id = sessionId
        THEN Spread(ss[k], [messages |-> newMessages])
        ELSE ss[k]]

\* updateSessionMessages
updateSessionMessages(ss, sessionId, newMessages, t) ==
    [k \in 1..Len(ss) |->
        IF ss[k].id = sessionId
        THEN Spread(ss[k], [messages |-> newMessages, updatedAt |-> t])
        ELSE ss[k]]

\* faulty variant: every session gets the title
updateSessionTitle_All(ss, sessionId, title) ==
    [k \in 1..Len(ss) |-> Spread(ss[k], [title |-> title])]

\* updateSessionTitle
updateSessionTitle(ss, sessionId, title) ==
    [k \in 1..Len(ss) |->
        IF ss[k].id = sessionId THEN Spread(ss[k], [title |-> title]) ELSE ss[k]]

\* const sortedSessions = [...sessions].sort((a, b) => b.updatedAt - a.updatedAt)
\* (Array.prototype.sort is stable: ties keep the stored order)
RECURSIVE sortedSessions(_)
sortedSessions(ss) ==
    IF ss = <<>> THEN <<>>
    ELSE LET top == CHOOSE k \in 1..Len(ss) :
                       /\ \A j \in 1..Len(ss) : ss[j].updatedAt <= ss[k].updatedAt
                       /\ \A j \in 1..(k - 1) : ss[j].updatedAt < ss[k].updatedAt
             rest == [j \in 1..(Len(ss) - 1) |-> IF j < top THEN ss[j] ELSE ss[j + 1]]
         IN <<ss[top]>> \o sortedSessions(rest)

\* ----------------------------------------------------------- registry actions
\* "New Chat" button
CreateNewSession ==
    LET r == createNewSession(sessions, currentSessionId, nextId, now) IN
    /\ Commit(r.sessions, r.currentSessionId, r.used)
    /\ UNCHANGED <<currentModel, enableSearch, enableThinking, isLoading, editingId,
                   invocations, titleRequests, now>>

\* faulty variant: the click leaves the current id
selectSession_Ignored(cur, id) == cur

\* the sidebar entry's onClick: setCurrentSessionId(session.id)
selectSession(cur, id) == id

\* click on a sidebar entry (the sidebar lists sortedSessions)
SelectSession(id) ==
    /\ id \in SessionIds(sortedSessions(sessions))
    /\ Commit(sessions, selectSession(currentSessionId, id), 0)
    /\ UNCHANGED <<currentModel, enableSearch, enableThinking, isLoading, editingId,
                   invocations, titleRequests, now>>

\* click on a sidebar entry's delete button
DeleteSession(id) ==
    /\ id \in SessionIds(sortedSessions(sessions))
    /\ Commit(deleteFilter(sessions, id), deleteCurrent(currentSessionId, id), 0)
    /\ UNCHANGED <<currentModel, enableSearch, enableThinking, isLoading, editingId,
                   invocations, titleRequests, now>>

\* Date.now() advances
Tick ==
    /\ now' = now + 1
    /\ UNCHANGED <<sessions, stored, fatal, currentSessionId, currentModel, enableSearch, enableThinking,
                   isLoading, editingId, invocations, titleRequests, nextId>>

\* Composer: model menu, search toggle, thinking toggle (shown for PRO only)
SetModel(m) ==
    /\ currentModel' = m
    /\ UNCHANGED <<sessions, stored, fatal, currentSessionId, enableSearch, enableThinking, isLoading,
                   editingId, invocations, titleRequests, nextId, now>>

ToggleSearch ==
    /\ enableSearch' = ~enableSearch
    /\ UNCHANGED <<sessions, stored, fatal, currentSessionId, currentModel, enableThinking, isLoading,
                   editingId, invocations, titleRequests, nextId, now>>

ToggleThinking ==
    /\ currentModel = PRO
    /\ enableThinking' = ~enableThinking
    /\ UNCHANGED <<sessions, stored, fatal, currentSessionId, currentModel, enableSearch, isLoading,
                   editingId, invocations, titleRequests, nextId, now>>

\* -------------------------------------------------------- generation engine
\* faulty variant: the placeholder starts with isThinking false
botPlaceholder_NotThinking(id, t, model, thinking) ==
    [id |-> id, role |-> "model", content |-> "", timestamp |-> t,
     isThinking |-> FALSE, isReasoning |-> (model = PRO /\ thinking)]

\* faulty variant: isReasoning follows the toggle, whatever the model
botPlaceholder_AnyModel(id, t, model, thinking) ==
    [id |-> id, role |-> "model", content |-> "", timestamp |-> t,
     isThinking |-> TRUE, isReasoning |-> thinking]

\* the botPlaceholder literal of generateResponse
botPlaceholder(id, t, model, thinking) ==
    [id |-> id, role |-> "model", content |-> "", timestamp |-> t,
     isThinking |-> TRUE, isReasoning |-> (model = PRO /\ thinking)]

\* faulty variant: the updaters look up the session that is current when the event
\* arrives instead of the one the call captured
ReplaceMessage_Current(prev, sessionId, botMsgId, upd) ==
    IF ~HasSession(prev, currentSessionId) THEN prev
    ELSE LET session == FindSession(prev, currentSessionId)
             newMsgs == [k \in 1..Len(session.messages) |->
                            IF session.messages[k].id = botMsgId
                            THEN Spread(session.messages[k], upd)
                            ELSE session.messages[k]]
         IN [k \in 1..Len(prev) |->
                IF prev[k].id = currentSessionId
                THEN Spread(prev[k], [messages |-> newMsgs])
                ELSE prev[k]]

\* faulty variant: the update is applied to every message of the session
ReplaceMessage_AllMessages(prev, sessionId, botMsgId, upd) ==
    IF ~HasSession(prev, sessionId) THEN prev
    ELSE [k \in 1..Len(prev) |->
             IF prev[k].id = sessionId
             THEN Spread(prev[k], [messages |->
                      [j \in 1..Len(prev[k].messages) |-> Spread(prev[k].messages[j], upd)]])
             ELSE prev[k]]

\* faulty variant: the session is rebuilt from the one the call captured when it
\* started (a first message's call starts in a session still titled "New Chat")
ReplaceMessage_StaleSession(prev, sessionId, botMsgId, upd) ==
    IF ~HasSession(prev, sessionId) THEN prev
    ELSE [k \in 1..Len(prev) |->
             IF prev[k].id = sessionId
             THEN Spread(prev[k], [title |-> NewChat, messages |->
                      [j \in 1..Len(prev[k].messages) |->
                          IF prev[k].messages[j].id = botMsgId
                          THEN Spread(prev[k].messages[j], upd)
                          ELSE prev[k].messages[j]]])
             ELSE prev[k]]

\* faulty variant: a session that is no longer stored is stored again, holding the
\* updated placeholder
ReplaceMessage_Reinserts(prev, sessionId, botMsgId, upd) ==
    IF ~HasSession(prev, sessionId)
    THEN Append(prev,
             [id |-> sessionId, title |-> NewChat,
              messages |-> <<Spread([id |-> botMsgId, role |-> "model", content |-> "",
                                     timestamp |-> 0], upd)>>,
              updatedAt |-> 0])
    ELSE [k \in 1..Len(prev) |->
             IF prev[k].id = sessionId
             THEN Spread(prev[k], [messages |->
                      [j \in 1..Len(prev[k].messages) |->
                          IF prev[k].messages[j].id = botMsgId
                          THEN Spread(prev[k].messages[j], upd)
                          ELSE prev[k].messages[j]]])
             ELSE prev[k]]

\* faulty variant: a placeholder that is no longer in the session is appended again
ReplaceMessage_Upserts(prev, sessionId, botMsgId, upd) ==
    IF ~HasSession(prev, sessionId) THEN prev
    ELSE LET session == FindSession(prev, sessionId)
             newMsgs == IF \E k \in 1..Len(session.messages) :
                               session.messages[k].id = botMsgId
                        THEN [k \in 1..Len(session.messages) |->
                                 IF session.messages[k].id = botMsgId
                                 THEN Spread(session.messages[k], upd)
                                 ELSE session.messages[k]]
                        ELSE Append(session.messages,
                                 Spread([id |-> botMsgId, role |-> "model", content |-> "",
                                         timestamp |-> 0, isThinking |-> TRUE,
                                         isReasoning |-> FALSE], upd))
         IN [k \in 1..Len(prev) |->
                IF prev[k].id = sessionId
                THEN Spread(prev[k], [messages |-> newMsgs])
                ELSE prev[k]]

\* faulty variant: the updater also stamps the session, as updateSessionMessages does
ReplaceMessage_Stamps(prev, sessionId, botMsgId, upd) ==
    IF ~HasSession(prev, sessionId) THEN prev
    ELSE LET session == FindSession(prev, sessionId)
             newMsgs == [k \in 1..Len(session.messages) |->
                            IF session.messages[k].id = botMsgId
                            THEN Spread(session.messages[k], upd)
                            ELSE session.messages[k]]
         IN [k \in 1..Len(prev) |->
                IF prev[k].id = sessionId
                THEN Spread(prev[k], [messages |-> newMsgs, updatedAt |-> now])
                ELSE prev[k]]

\* the three setSessions(prev => ...) updaters of generateResponse: replace one
\* message of the session captured by the closure, if that session is still stored
ReplaceMessage(prev, sessionId, botMsgId, upd) ==
    IF ~HasSession(prev, sessionId) THEN prev
    ELSE LET session == FindSession(prev, sessionId)
             newMsgs == [k \in 1..Len(session.messages) |->
                            IF session.messages[k].id = botMsgId
                            THEN Spread(session.messages[k], upd)
                            ELSE session.messages[k]]
         IN [k \in 1..Len(prev) |->
                IF prev[k].id = sessionId
                THEN Spread(prev[k], [messages |-> newMsgs])
                ELSE prev[k]]

\* onChunk's updater (accumulatedText already extended)
onChunk(prev, sessionId, botMsgId, accumulatedText) ==
    ReplaceMessage(prev, sessionId, botMsgId,
                   [content |-> accumulatedText, isThinking |-> FALSE])

\* faulty variant: metadata already stored is kept
onGrounding_KeepsFirst(prev, sessionId, botMsgId, metadata) ==
    IF ~HasSession(prev, sessionId) THEN prev
    ELSE [k \in 1..Len(prev) |->
             IF prev[k].id = sessionId
             THEN Spread(prev[k], [messages |->
                      [j \in 1..Len(prev[k].messages) |->
                          IF /\ prev[k].messages[j].id = botMsgId
                             /\ "groundingMetadata" \notin DOMAIN prev[k].messages[j]
                          THEN Spread(prev[k].messages[j], [groundingMetadata |-> metadata])
                          ELSE prev[k].messages[j]]])
             ELSE prev[k]]

\* onGrounding's updater
onGrounding(prev, sessionId, botMsgId, metadata) ==
    ReplaceMessage(prev, sessionId, botMsgId, [groundingMetadata |-> metadata])

\* faulty variant: the catch block sets the error text and leaves isThinking
onError_KeepsThinking(prev, sessionId, botMsgId) ==
    IF ~HasSession(prev, sessionId) THEN prev
    ELSE [k \in 1..Len(prev) |->
             IF prev[k].id = sessionId
             THEN Spread(prev[k], [messages |->
                      [j \in 1..Len(prev[k].messages) |->
                          IF prev[k].messages[j].id = botMsgId
                          THEN Spread(prev[k].messages[j], [content |-> ErrorText])
                          ELSE prev[k].messages[j]]])
             ELSE prev[k]]

\* faulty variant: the catch block shows the error text only in a placeholder that
\* holds no text yet
onError_KeepsPartial(prev, sessionId, botMsgId) ==
    IF ~HasSession(prev, sessionId) THEN prev
    ELSE [k \in 1..Len(prev) |->
             IF prev[k].id = sessionId
             THEN Spread(prev[k], [messages |->
                      [j \in 1..Len(prev[k].messages) |->
                          IF prev[k].messages[j].id = botMsgId
                          THEN Spread(prev[k].messages[j],
                                      [content |-> IF prev[k].messages[j].content = ""
                                                   THEN ErrorText
                                                   ELSE prev[k].messages[j].content,
                                       isThinking |-> FALSE])
                          ELSE prev[k].messages[j]]])
             ELSE prev[k]]

\* the catch block's updater
onError(prev, sessionId, botMsgId) ==
    ReplaceMessage(prev, sessionId, botMsgId, [content |-> ErrorText, isThinking |-> FALSE])

\* what the normal return of streamGeminiResponse does to sessions: nothing
\* (control falls through to finally)
onEnd(prev, sessionId, botMsgId) == prev

\* faulty variant: the busy flag is left as it is
Finally_KeepsBusy(loading) == loading

\* faulty variant: the new chunk is put in front of the accumulator
Accumulate_Prepend(accumulatedText, chunkText) == chunkText \o accumulatedText

\* accumulatedText += chunkText
Accumulate(accumulatedText, chunkText) == accumulatedText \o chunkText

\* finally { setIsLoading(false) }
Finally(loading) == FALSE

\* the arguments generateResponse hands to streamGeminiResponse, with the locals
\* of the call (deltas: the texts onChunk was called with, in order; the local
\* accumulatedMetadata is written by onGrounding and never read, and is left out)
NewInvocation(sessionId, botMsgId, newHistory, currentText) ==
    [sessionId |-> sessionId, botMsgId |-> botMsgId,
     history |-> newHistory, message |-> currentText,
     model |-> currentModel, enableSearch |-> enableSearch,
     enableThinking |-> enableThinking,
     accumulatedText |-> "", deltas |-> <<>>, status |-> "streaming"]

\* generateResponse up to its await, called with `used` ids already drawn
generateResponse(messages, newHistory, currentText, used) ==
    IF currentSessionId = Null
    THEN /\ Commit(sessions, currentSessionId, used)
         /\ UNCHANGED <<isLoading, invocations>>
    ELSE LET botMsgId == nextId + used
             updatedMessages ==
                 Append(messages, botPlaceholder(botMsgId, now, currentModel, enableThinking))
         IN /\ Commit(updateSessionMessages(sessions, currentSessionId, updatedMessages, now),
                      currentSessionId, used + 1)
            /\ isLoading' = TRUE
            /\ invocations' = Append(invocations,
                   NewInvocation(currentSessionId, botMsgId, newHistory, currentText))

\* Composer.handleSend's guard
CanSend(text, files, loading) == ~((IsBlank(text) /\ files = 0) \/ loading)

\* handleSendMessage: displayContent
displayContent(text, files) ==
    IF files > 0 THEN text \o "\n\n[Attached " \o ToString(files) \o " file(s)]" ELSE text

\* handleSendMessage: userMsg
userMsg(id, text, files, t) ==
    [id |-> id, role |-> "user", content |-> displayContent(text, files), timestamp |-> t]

\* faulty variant: every send asks for a title
FiresTitle_Always(session) == TRUE

\* handleSendMessage: if (currentSession.messages.length === 0) generateTitle(...)
FiresTitle(session) == Len(session.messages) = 0

\* faulty variant: the history handed over already holds the new user message
sendCall_HistoryWithUser(session, msg) ==
    [messages |-> Append(session.messages, msg),
     newHistory |-> Append(session.messages, msg),
     currentText |-> msg.content]

\* handleSendMessage: generateResponse(messagesWithUser, newHistory, displayContent)
sendCall(session, msg) ==
    [messages |-> Append(session.messages, msg),
     newHistory |-> session.messages,
     currentText |-> msg.content]

\* Composer.handleSend, then App.handleSendMessage
HandleSendMessage(text, files) ==
    /\ CanSend(text, files, isLoading)
    /\ HasCurrentSession(sessions, currentSessionId)
    /\ LET cs == currentSession(sessions, currentSessionId)
           msg == userMsg(nextId, text, files, now)
       IN /\ titleRequests' = IF FiresTitle(cs)
                              THEN Append(titleRequests, [sessionId |-> cs.id])
                              ELSE titleRequests
          /\ LET call == sendCall(cs, msg) IN
             generateResponse(call.messages, call.newHistory, call.currentText, 1)
    /\ UNCHANGED <<currentModel, enableSearch, enableThinking, editingId, now>>

\* ------------------------------------------------------------ stream events
InvocationIds == 1..Len(invocations)

Streaming(i) == i \in InvocationIds /\ invocations[i].status = "streaming"

\* one iteration of `for await (const chunk of result)` for the call with locals
\* inv: onChunk if chunk.text is truthy, then onGrounding if the chunk carries
\* grounding metadata; yields the sessions and the locals it leaves
forAwaitBody(prev, inv, text, meta) ==
    LET acc == IF text # "" THEN Accumulate(inv.accumulatedText, text)
               ELSE inv.accumulatedText
        s1 == IF text # "" THEN onChunk(prev, inv.sessionId, inv.botMsgId, acc)
              ELSE prev
        s2 == IF meta # NoMeta THEN onGrounding(s1, inv.sessionId, inv.botMsgId, meta)
              ELSE s1
    IN [sessions |-> s2,
        inv |-> Spread(inv, [accumulatedText |-> acc,
                             deltas |-> IF text # "" THEN Append(inv.deltas, text)
                                        ELSE inv.deltas])]

\* a chunk arrives for call i
Chunk(i, text, meta) ==
    /\ Streaming(i)
    /\ text # "" \/ meta # NoMeta
    /\ LET r == forAwaitBody(sessions, invocations[i], text, meta)
       IN /\ Commit(r.sessions, currentSessionId, 0)
          /\ invocations' = [invocations EXCEPT ![i] = r.inv]
    /\ UNCHANGED <<currentModel, enableSearch, enableThinking, isLoading, editingId,
                   titleRequests, now>>

\* the stream ends: streamGeminiResponse returns, then finally
StreamEnd(i) ==
    /\ Streaming(i)
    /\ LET inv == invocations[i] IN
       /\ Commit(onEnd(sessions, inv.sessionId, inv.botMsgId), currentSessionId, 0)
       /\ invocations' = [invocations EXCEPT ![i] = Spread(inv, [status |-> "completed"])]
    /\ isLoading' = Finally(isLoading)
    /\ UNCHANGED <<currentModel, enableSearch, enableThinking, editingId, titleRequests, now>>

\* faulty variant: after the catch block the call opens its stream again
StreamError_Retries(i) ==
    /\ Streaming(i)
    /\ LET inv == invocations[i] IN
       /\ Commit(onError(sessions, inv.sessionId, inv.botMsgId), currentSessionId, 0)
       /\ invocations' = [invocations EXCEPT ![i] =
                              Spread(inv, [accumulatedText |-> "", status |-> "streaming"])]
    /\ isLoading' = isLoading
    /\ UNCHANGED <<currentModel, enableSearch, enableThinking, editingId, titleRequests, now>>

\* the adapter throws (before the first chunk or between chunks): catch, then finally
StreamError(i) ==
    /\ Streaming(i)
    /\ LET inv == invocations[i] IN
       /\ Commit(onError(sessions, inv.sessionId, inv.botMsgId), currentSessionId, 0)
       /\ invocations' = [invocations EXCEPT ![i] = Spread(inv, [status |-> "failed"])]
    /\ isLoading' = Finally(isLoading)
    /\ UNCHANGED <<currentModel, enableSearch, enableThinking, editingId, titleRequests, now>>

\* the stream of call i terminates, normally or by throwing
StreamStops(i) ==
    \/ StreamEnd(i) /\ lastStep' = "StreamEnd"
    \/ StreamError(i) /\ lastStep' = "StreamError"

\* faulty variant: no fallback; a failed or empty request yields the empty text
generateTitle_NoFallback(ok, text) == IF ok THEN text ELSE ""

\* generateTitle: response.text || "New Chat", and "New Chat" when the request throws
generateTitle(ok, text) == IF ok /\ text # "" THEN text ELSE NewChat

\* a generateTitle promise resolves: .then(title => updateSessionTitle(id, title))
TitleResolve(k, ok, text) ==
    /\ k \in 1..Len(titleRequests)
    /\ Commit(updateSessionTitle(sessions, titleRequests[k].sessionId, generateTitle(ok, text)),
              currentSessionId, 0)
    /\ titleRequests' = [j \in 1..(Len(titleRequests) - 1) |->
                            IF j < k THEN titleRequests[j] ELSE titleRequests[j + 1]]
    /\ UNCHANGED <<currentModel, enableSearch, enableThinking, isLoading, editingId,
                   invocations, now>>

\* ------------------------------------------------------- edit and regenerate
\* ChatMessages gets messages={currentSession?.messages || []}
displayedMessages ==
    IF HasCurrentSession(sessions, currentSessionId)
    THEN currentSession(sessions, currentSessionId).messages
    ELSE <<>>

MessageIds(msgs) == {msgs[k].id : k \in 1..Len(msgs)}

\* the pencil button: msg.role === 'user' && !editingId && !isStreaming
CanStartEditing(msg, editing, streaming) ==
    msg.role = "user" /\ editing = Null /\ ~streaming

\* ChatMessages.startEditing
StartEditing(k) ==
    /\ k \in 1..Len(displayedMessages)
    /\ CanStartEditing(displayedMessages[k], editingId, isLoading)
    /\ editingId' = displayedMessages[k].id
    /\ UNCHANGED <<sessions, stored, fatal, currentSessionId, currentModel, enableSearch, enableThinking,
                   isLoading, invocations, titleRequests, nextId, now>>

\* ChatMessages.cancelEditing (the edit box is rendered for editingId === msg.id)
CancelEditing ==
    /\ editingId \in MessageIds(displayedMessages)
    /\ editingId' = Null
    /\ UNCHANGED <<sessions, stored, fatal, currentSessionId, currentModel, enableSearch, enableThinking,
                   isLoading, invocations, titleRequests, nextId, now>>

\* "Save & Submit" is offered in the edit box, whatever isStreaming is
CanSaveEdit(msgs, editing, streaming) == editing \in MessageIds(msgs)

\* handleEditMessage: historyBeforeEdit = messages.slice(0, msgIndex)
historyBeforeEdit(msgs, msgIndex) == SubSeq(msgs, 1, msgIndex - 1)

\* faulty variant: the edited message is built anew, as a message of the model
updatedMsg_Rebuilt(msg, newContent, t) ==
    [id |-> msg.id, role |-> "model", content |-> newContent, timestamp |-> t]

\* handleEditMessage: updatedMsg
updatedMsg(msg, newContent, t) == Spread(msg, [content |-> newContent, timestamp |-> t])

\* faulty variant: the message is replaced in place and what followed it is kept
messagesWithUpdated_KeepsTail(msgs, msgIndex, newContent, t) ==
    [k \in 1..Len(msgs) |-> IF k = msgIndex THEN Spread(msgs[k], [content |-> newContent,
                                                                 timestamp |-> t])
                            ELSE msgs[k]]

\* handleEditMessage: messagesWithUpdated
messagesWithUpdated(msgs, msgIndex, newContent, t) ==
    Append(historyBeforeEdit(msgs, msgIndex), updatedMsg(msgs[msgIndex], newContent, t))

\* handleEditMessage: generateResponse(messagesWithUpdated, historyBeforeEdit, newContent)
editCall(msgs, msgIndex, newContent, t) ==
    [messages |-> messagesWithUpdated(msgs, msgIndex, newContent, t),
     newHistory |-> historyBeforeEdit(msgs, msgIndex),
     currentText |-> newContent]

\* faulty variant: without the check of msgIndex, an unknown id is taken as the id
\* of a new message
handleEditMessage_NoGuard(messageId, newContent) ==
    IF ~HasCurrentSession(sessions, currentSessionId)
    THEN UNCHANGED <<sessions, stored, fatal, currentSessionId, nextId, isLoading, invocations>>
    ELSE LET msgs == currentSession(sessions, currentSessionId).messages
             msgIndex == IndexOfId(msgs, messageId)
         IN IF msgIndex = 0
            THEN generateResponse(
                     Append(msgs, [id |-> messageId, role |-> "user",
                                   content |-> newContent, timestamp |-> now]),
                     msgs, newContent, 0)
            ELSE LET call == editCall(msgs, msgIndex, newContent, now) IN
                 generateResponse(call.messages, call.newHistory, call.currentText, 0)

\* App.handleEditMessage
handleEditMessage(messageId, newContent) ==
    IF ~HasCurrentSession(sessions, currentSessionId)
    THEN UNCHANGED <<sessions, stored, fatal, currentSessionId, nextId, isLoading, invocations>>
    ELSE LET msgs == currentSession(sessions, currentSessionId).messages
             msgIndex == IndexOfId(msgs, messageId)
         IN IF msgIndex = 0
            THEN UNCHANGED <<sessions, stored, fatal, currentSessionId, nextId, isLoading, invocations>>
            ELSE LET call == editCall(msgs, msgIndex, newContent, now) IN
                 generateResponse(call.messages, call.newHistory, call.currentText, 0)

\* ChatMessages.saveEdit: onEditMessage(msgId, editContent); setEditingId(null)
SaveEdit(newContent) ==
    /\ CanSaveEdit(displayedMessages, editingId, isLoading)
    /\ ~IsBlank(newContent)
    /\ handleEditMessage(editingId, newContent)
    /\ editingId' = Null
    /\ UNCHANGED <<currentModel, enableSearch, enableThinking, titleRequests, now>>

\* the onEditMessage prop called with any message id, as App offers it
EditMessage(messageId, newContent) ==
    /\ handleEditMessage(messageId, newContent)
    /\ UNCHANGED <<currentModel, enableSearch, enableThinking, editingId, titleRequests, now>>

\* ------------------------------------------------------------ specification
\* a conversation an earlier run left stored: one finished exchange
OldSession ==
    [id |-> 1, title |-> "T",
     messages |-> <<[id |-> 2, role |-> "user", content |-> "hi", timestamp |-> 0],
                    [id |-> 3, role |-> "model", content |-> "a", timestamp |-> 0,
                     isThinking |-> FALSE, isReasoning |-> FALSE]>>,
     updatedAt |-> 0]

\* session lists an earlier run may have left stored
StoredLists == {<<>>, <<OldSession>>}

\* texts JSON.parse accepts that are no array
NonListTexts == {"{}", "null"}

\* what getItem may return at startup: null, the empty text, text that is no JSON,
\* JSON that is no array, and the serialization of a session list
StoredItems ==
    {NoItem, "", "[{"} \cup NonListTexts \cup {JSONstringify(ss) : ss \in StoredLists}

\* JSON.parse(saved), for the texts of StoredItems: the list a text serializes, the
\* value of a text that is no array, or a SyntaxError
JSONparse(text) ==
    IF \E ss \in StoredLists : JSONstringify(ss) = text
    THEN [kind |-> "array", value |-> CHOOSE ss \in StoredLists : JSONstringify(ss) = text]
    ELSE IF text \in NonListTexts THEN [kind |-> "other", value |-> text]
    ELSE [kind |-> "throws", value |-> text]

\* the initializer of useState<ChatSession[]>: the parsed value, whatever it is, for
\* a truthy item; [] for null, for "" and when JSON.parse throws. A state that is
\* no array makes the first render throw (sessions.find, [...sessions]).
loadSessions(saved) ==
    IF saved = NoItem \/ saved = "" THEN [sessions |-> <<>>, renders |-> TRUE]
    ELSE LET parsed == JSONparse(saved) IN
         IF parsed.kind = "throws" THEN [sessions |-> <<>>, renders |-> TRUE]
         ELSE IF parsed.kind = "array" THEN [sessions |-> parsed.value, renders |-> TRUE]
         ELSE [sessions |-> <<>>, renders |-> FALSE]

\* ids held by a session list; uuidv4() yields none of them
IdsIn(ss) ==
    SessionIds(ss) \cup UNION {MessageIds(ss[k].messages) : k \in 1..Len(ss)}

FirstFreeId(ss) == 1 + (CHOOSE n \in IdsIn(ss) \cup {0} : \A j \in IdsIn(ss) : j <= n)

\* The state after mounting with `saved` under 'chat_sessions': the initializer,
\* the first render, the two mount effects and the render they cause. When the
\* first render throws nothing is mounted and no effect runs.
InitFrom(saved) ==
    LET loaded == loadSessions(saved)
        first == FirstFreeId(loaded.sessions)
        r == EnsureSessionEffect(-1, loaded.sessions, Null, first, 0)
    IN /\ fatal = ~loaded.renders
       /\ sessions = IF loaded.renders THEN r.sessions ELSE <<>>
       /\ currentSessionId = IF loaded.renders THEN r.currentSessionId ELSE Null
       /\ stored = IF loaded.renders
                   THEN persistEffect(persistEffect(saved, TRUE, loaded.sessions),
                                      r.sessions # loaded.sessions, r.sessions)
                   ELSE saved
       /\ nextId = first + (IF loaded.renders THEN r.used ELSE 0)
       /\ currentModel = FLASH
       /\ enableSearch = FALSE
       /\ enableThinking = FALSE
       /\ isLoading = FALSE
       /\ editingId = Null
       /\ invocations = <<>>
       /\ titleRequests = <<>>
       /\ now = 0
       /\ lastStep = "Init"

\* First run: nothing is stored under 'chat_sessions'; the mount effect creates the
\* first session.
Init == InitFrom(NoItem)

\* A later run, or a run over a damaged store: any of StoredItems is stored.
InitBoot == \E saved \in StoredItems : InitFrom(saved)

\* The bounds of a run, on the state a step leaves.
Within(maxIds, maxSessions, maxInvocations, maxDeltas) ==
    /\ nextId' <= maxIds + 1
    /\ Len(sessions') <= maxSessions
    /\ Len(invocations') <= maxInvocations
    /\ now' <= MaxClock
    /\ \A i \in 1..Len(invocations') : Len(invocations'[i].deltas) <= maxDeltas

\* Each handler, recorded in lastStep.
Registry ==
    \/ CreateNewSession /\ lastStep' = "CreateNewSession"
    \/ \E id \in SessionIds(sessions) : SelectSession(id) /\ lastStep' = "SelectSession"
    \/ \E id \in SessionIds(sessions) : DeleteSession(id) /\ lastStep' = "DeleteSession"

Settings ==
    \/ \E m \in ModelIds : SetModel(m) /\ lastStep' = "SetModel"
    \/ ToggleSearch /\ lastStep' = "ToggleSearch"
    \/ ToggleThinking /\ lastStep' = "ToggleThinking"

Sending(inputs) ==
    \E in \in inputs :
        HandleSendMessage(in[1], in[2]) /\ lastStep' = "HandleSendMessage"

Editing ==
    \/ \E k \in 1..Len(displayedMessages) : StartEditing(k) /\ lastStep' = "StartEditing"
    \/ CancelEditing /\ lastStep' = "CancelEditing"
    \/ \E c \in EditTexts : SaveEdit(c) /\ lastStep' = "SaveEdit"

Stream(texts, metas) ==
    \/ \E i \in InvocationIds, text \in texts, meta \in metas :
           Chunk(i, text, meta) /\ lastStep' = "Chunk"
    \/ \E i \in InvocationIds : StreamEnd(i) /\ lastStep' = "StreamEnd"
    \/ \E i \in InvocationIds : StreamError(i) /\ lastStep' = "StreamError"

Titles ==
    \E k \in 1..Len(titleRequests), ok \in BOOLEAN, text \in TitleTexts :
        TitleResolve(k, ok, text) /\ lastStep' = "TitleResolve"

\* Several sessions: the registry, sends, edits, streams whose chunks carry an empty
\* or a non-empty text and at most one kind of grounding metadata, and titles; up
\* to MaxIds ids, MaxSessions sessions and MaxInvocations calls. The clock stands
\* still.
Next ==
    /\ \/ Registry
       \/ Sending(SendInputs)
       \/ Editing
       \/ Stream({"", "a"}, {NoMeta, "g1"})
       \/ Titles
    /\ Within(MaxIds, MaxSessions, MaxInvocations, MaxDeltas)

Spec == Init /\ [][Next]_vars

\* One conversation and its streams in full: the clock advances, every send input
\* is offered, chunks carry any text and any metadata and the title request
\* resolves at any moment; up to StreamMaxIds ids and StreamMaxInvocations calls,
\* one after the other.
NextStream ==
    /\ \/ Tick /\ lastStep' = "Tick"
       \/ Sending(SendInputs)
       \/ Stream(ChunkTexts, Metas \cup {NoMeta})
       \/ Titles
    /\ Within(StreamMaxIds, 1, StreamMaxInvocations, MaxDeltas)

SpecStream == Init /\ [][NextStream]_vars

\* One conversation: sends and edits in the first session, up to EditMaxIds ids
\* and EditMaxInvocations calls; no session is created, selected or deleted and
\* the title request stays unresolved; the clock stands still and a stream
\* delivers up to EditMaxDeltas chunks, of text only.
NextEdit ==
    /\ \/ Sending(SendInputs)
       \/ Editing
       \/ Stream({"a"}, {NoMeta})
    /\ Within(EditMaxIds, 1, EditMaxInvocations, EditMaxDeltas)

SpecEdit == Init /\ [][NextEdit]_vars

\* The registry over time: up to RegMaxSessions sessions are created, selected and
\* deleted while the clock advances, and a send stamps its session; up to
\* RegMaxIds ids and RegMaxInvocations calls, whose streams stay silent.
NextRegistry ==
    /\ \/ Registry
       \/ Tick /\ lastStep' = "Tick"
       \/ Sending({<<"hi", 0>>})
    /\ Within(RegMaxIds, RegMaxSessions, RegMaxInvocations, 0)

SpecRegistry == Init /\ [][NextRegistry]_vars

\* Startup over any stored item, then the registry, a send and its stream of text
\* chunks; ids up to BootMaxIds, up to BootMaxSessions sessions and
\* BootMaxInvocations calls. No handler runs when the first render threw: nothing
\* is mounted.
NextBoot ==
    /\ ~fatal
    /\ \/ Registry
       \/ Sending({<<"hi", 0>>})
       \/ Stream({"a"}, {NoMeta})
    /\ Within(BootMaxIds, BootMaxSessions, BootMaxInvocations, EditMaxDeltas)

SpecBoot == InitBoot /\ [][NextBoot]_vars

\* Streams that terminate: the registry, sends and streams of text chunks, up to
\* LiveMaxIds ids, LiveMaxSessions sessions and LiveMaxInvocations calls; the
\* adapter's stream of every call ends or throws at some time (the for await loop
\* of streamGeminiResponse is left when the response's iterator is done or
\* rejects), whatever else happens meanwhile.
NextLive ==
    /\ \/ Registry
       \/ Sending({<<"hi", 0>>})
       \/ Stream({"a"}, {NoMeta})
    /\ Within(LiveMaxIds, LiveMaxSessions, LiveMaxInvocations, EditMaxDeltas)

\* Sends and edits over time: the registry, the clock, a send, edits and streams
\* that end without a chunk; up to OrderMaxIds ids, OrderMaxSessions sessions and
\* OrderMaxInvocations calls.
NextOrder ==
    /\ \/ Registry
       \/ Tick /\ lastStep' = "Tick"
       \/ Sending({<<"hi", 0>>})
       \/ Editing
       \/ \E i \in InvocationIds : StreamEnd(i) /\ lastStep' = "StreamEnd"
    /\ Within(OrderMaxIds, OrderMaxSessions, OrderMaxInvocations, 0)

SpecOrder == Init /\ [][NextOrder]_vars

\* App's props called directly: onSend and onEditMessage with any id drawn so far
\* or not yet drawn, next to the registry and streams of text chunks; up to
\* PropMaxIds ids, PropMaxSessions sessions and PropMaxInvocations calls.
NextProp ==
    /\ \/ Registry
       \/ Sending({<<"hi", 0>>})
       \/ \E id \in 1..nextId, c \in EditTexts :
              EditMessage(id, c) /\ lastStep' = "EditMessage"
       \/ Stream({"a"}, {NoMeta})
    /\ Within(PropMaxIds, PropMaxSessions, PropMaxInvocations, EditMaxDeltas)

SpecProp == Init /\ [][NextProp]_vars

\* The settings and one conversation: the model menu, the two toggles, sends and
\* streams of text and grounding metadata; up to SetMaxIds ids and
\* SetMaxInvocations calls, in the first session.
NextSettings ==
    /\ \/ Settings
       \/ Sending({<<"hi", 0>>})
       \/ Stream({"a"}, {NoMeta, "g1"})
    /\ Within(SetMaxIds, 1, SetMaxInvocations, EditMaxDeltas)

SpecSettings == Init /\ [][NextSettings]_vars

\* Streams over time: the registry, the clock, a send, edits and streams of text
\* chunks with or without grounding metadata that end or fail; up to StampMaxIds
\* ids, StampMaxSessions sessions and StampMaxInvocations calls.
NextStamp ==
    /\ \/ Registry
       \/ Tick /\ lastStep' = "Tick"
       \/ Sending({<<"hi", 0>>})
       \/ Editing
       \/ Stream({"a"}, {NoMeta, "g1"})
    /\ Within(StampMaxIds, StampMaxSessions, StampMaxInvocations, EditMaxDeltas)

SpecStamp == Init /\ [][NextStamp]_vars

SpecLive ==
    /\ Init
    /\ [][NextLive]_vars
    /\ \A i \in 1..LiveMaxInvocations : WF_vars(StreamStops(i))

\* ------------------------------------------------------------------ claims
\* the messages stored for a session id (none when the session is not stored)
StoredMessages(ss, sessionId) ==
    IF HasSession(ss, sessionId) THEN FindSession(ss, sessionId).messages ELSE <<>>

\* the stored copies of an invocation's placeholder (at most one)
Placeholders(ss, inv) ==
    LET msgs == StoredMessages(ss, inv.sessionId) IN
    {msgs[k] : k \in {j \in 1..Len(msgs) : msgs[j].id = inv.botMsgId}}

\* C1: while a stream runs and after it has ended normally, the stored placeholder's
\* content is the concatenation, in delivery order, of the text deltas delivered so far.
C1_DeltasInOrder ==
    \A i \in InvocationIds :
        invocations[i].status \in {"streaming", "completed"} =>
            \A m \in Placeholders(sessions, invocations[i]) :
                m.content = Concat(invocations[i].deltas)

\* C1 witness: a stream that delivered two different deltas has ended normally and
\* its placeholder holds both, in order.
C1_Witness ==
    \E i \in InvocationIds :
        /\ invocations[i].status = "completed"
        /\ invocations[i].deltas = <<"a", "b">>
        /\ \E m \in Placeholders(sessions, invocations[i]) : m.content = "ab"

\* C2 (as claimed): once a stream has ended, normally or with an error, its
\* placeholder's isThinking is false.
C2_ThinkingClearedAtEnd ==
    \A i \in InvocationIds :
        invocations[i].status \in {"completed", "failed"} =>
            \A m \in Placeholders(sessions, invocations[i]) : m.isThinking = FALSE

\* C3: when the adapter throws, before any delta or after some, the stored
\* placeholder's content becomes the fixed error text and its isThinking false, the
\* busy flag is lowered, and the call ends (as failed) instead of raising further.
C3_ErrorOutcome ==
    [][\A i \in InvocationIds :
          StreamError(i) =>
              /\ \A m \in Placeholders(sessions', invocations[i]) :
                     m.content = ErrorText /\ m.isThinking = FALSE
              /\ Cardinality(Placeholders(sessions', invocations[i]))
                     = Cardinality(Placeholders(sessions, invocations[i]))
              /\ isLoading' = FALSE
              /\ invocations'[i].status = "failed"]_vars

\* C3 witness: the adapter threw after a delta had been applied, and the placeholder
\* now shows the error text.
C3_Witness ==
    /\ lastStep = "StreamError"
    /\ \E i \in InvocationIds :
           /\ invocations[i].status = "failed"
           /\ Len(invocations[i].deltas) >= 1
           /\ \E m \in Placeholders(sessions, invocations[i]) :
                  m.content = ErrorText /\ m.isThinking = FALSE
    /\ ~isLoading

InFlight == {i \in InvocationIds : invocations[i].status = "streaming"}

ChunkInputs == ChunkTexts \X (Metas \cup {NoMeta})

\* C4: creating or selecting a session leaves every call in flight as it is, and an
\* event that arrives while another session is current changes the placeholder in
\* the session that was current when the call started, and no other session.
C4_TargetsCapturedSession ==
    [][/\ (CreateNewSession \/ \E id \in SessionIds(sessions) : SelectSession(id))
              => invocations' = invocations
       /\ \A i \in InFlight :
              LET inv == invocations[i]
                  away == currentSessionId # inv.sessionId
                  before == Placeholders(sessions, inv)
                  after == Placeholders(sessions', inv)
                  othersKept ==
                      /\ Len(sessions') = Len(sessions)
                      /\ \A k \in 1..Len(sessions) :
                             sessions[k].id # inv.sessionId => sessions'[k] = sessions[k]
              IN /\ \A in \in ChunkInputs :
                        Chunk(i, in[1], in[2]) /\ away /\ before # {} =>
                            /\ othersKept
                            /\ in[1] # "" => \E m \in after :
                                   m.content = inv.accumulatedText \o in[1]
                            /\ in[2] # NoMeta => \E m \in after :
                                   /\ "groundingMetadata" \in DOMAIN m
                                   /\ m.groundingMetadata = in[2]
                 /\ StreamError(i) /\ away /\ before # {} =>
                        /\ othersKept
                        /\ \E m \in after : m.content = ErrorText
      ]_vars

\* C4 witness: the first text delta of the only call arrived while a session other
\* than the invoking one was current, and the invoking session's placeholder has it.
C4_Witness ==
    /\ lastStep = "Chunk"
    /\ Len(invocations) = 1
    /\ invocations[1].status = "streaming"
    /\ invocations[1].sessionId # currentSessionId
    /\ Len(invocations[1].deltas) = 1
    /\ \E m \in Placeholders(sessions, invocations[1]) :
           /\ m.content = invocations[1].deltas[1]
           /\ "groundingMetadata" \notin DOMAIN m

\* C5 (as claimed): at most one generateResponse call is in flight.
C5_AtMostOneInFlight == Cardinality(InFlight) <= 1

\* C6 (as claimed): while a call is in flight the busy flag is raised.
C6_BusyWhileInFlight == InFlight # {} => isLoading

AllMessageIds(ss) == UNION {MessageIds(ss[k].messages) : k \in 1..Len(ss)}

\* C7: "Save & Submit" on the message at (1-based) position idx leaves the session
\* with the idx-1 messages before it unchanged, then the edited message, then one new
\* empty model message, so every message that followed is gone; and no step ever
\* brings a message back: the only ids a step adds are fresh ones.
C7_EditTruncates ==
    [][/\ \A c \in EditTexts :
              SaveEdit(c) =>
                  LET cs == currentSession(sessions, currentSessionId)
                      old == cs.messages
                      idx == IndexOfId(old, editingId)
                      new == StoredMessages(sessions', cs.id)
                  IN /\ Len(new) = idx + 1
                     /\ SubSeq(new, 1, idx - 1) = SubSeq(old, 1, idx - 1)
                     /\ new[idx].id = old[idx].id
                     /\ new[idx].role = old[idx].role
                     /\ new[idx].content = c
                     /\ new[idx + 1].role = "model"
                     /\ new[idx + 1].content = ""
                     /\ new[idx + 1].id \notin MessageIds(old)
                     /\ \A k \in (idx + 1)..Len(old) : old[k].id \notin MessageIds(new)
       /\ \A id \in AllMessageIds(sessions') : id \in AllMessageIds(sessions) \/ id >= nextId
      ]_vars

\* C7 witness: in a conversation of four messages the third was edited; the model
\* response that followed it (id 5) is gone and a new placeholder (id 6) follows.
C7_Witness ==
    /\ lastStep = "SaveEdit"
    /\ Len(displayedMessages) = 4
    /\ displayedMessages[3].content = "hey"
    /\ displayedMessages[4].content = ""
    /\ MessageIds(displayedMessages) = {2, 3, 4, 6}

C9_SendAppends ==
    [][\A in \in SendInputs :
           HandleSendMessage(in[1], in[2]) =>
               LET cs == currentSession(sessions, currentSessionId)
                   n == Len(cs.messages)
                   new == StoredMessages(sessions', cs.id)
               IN /\ Len(new) = n + 2
                  /\ SubSeq(new, 1, n) = cs.messages
                  /\ new[n + 1].role = "user"
                  /\ new[n + 1].content
                         = (IF in[2] > 0 THEN in[1] \o "\n\n[Attached 1 file(s)]" ELSE in[1])
                  /\ new[n + 2].role = "model"
                  /\ new[n + 2].content = ""
                  /\ new[n + 2].isThinking = TRUE
                  /\ isLoading' = TRUE
      ]_vars

\* C9 witness: a second send into a conversation that already held two messages.
C9_Witness ==
    /\ lastStep = "HandleSendMessage"
    /\ Len(displayedMessages) = 4
    /\ displayedMessages[3].role = "user"
    /\ displayedMessages[4].content = ""
    /\ displayedMessages[4].isThinking = TRUE
    /\ isLoading

\* C10 (as claimed): an event of a stream whose invoking session has been deleted is
\* still applied to that session's stored message list.
C10_DeletedSessionAccumulates ==
    [][\A i \in InFlight : \A in \in ChunkInputs :
           Chunk(i, in[1], in[2]) /\ in[1] # "" /\ ~HasSession(sessions, invocations[i].sessionId)
               => \E m \in Placeholders(sessions', invocations[i]) :
                      m.content = invocations'[i].accumulatedText
      ]_vars

\* C10 (amended): deleting the invoking session removes it from the registry and
\* leaves the call in flight; the later events are still delivered and extend the
\* call's own accumulator, but the session stays deleted and its placeholder is
\* stored nowhere.
C10_DeletedSessionNotStored ==
    [][\A i \in InFlight :
           LET inv == invocations[i] IN
           /\ DeleteSession(inv.sessionId) =>
                  /\ ~HasSession(sessions', inv.sessionId)
                  /\ inv.botMsgId \notin AllMessageIds(sessions')
                  /\ invocations'[i] = inv
           /\ \A in \in ChunkInputs :
                  Chunk(i, in[1], in[2]) /\ ~HasSession(sessions, inv.sessionId) =>
                      /\ invocations'[i].accumulatedText = inv.accumulatedText \o in[1]
                      /\ invocations'[i].status = "streaming"
                      /\ ~HasSession(sessions', inv.sessionId)
                      /\ inv.botMsgId \notin AllMessageIds(sessions')
      ]_vars

\* C10 witness: a text delta was delivered for the only call after its session had
\* been deleted.
C10_Witness ==
    /\ lastStep = "Chunk"
    /\ Len(invocations) = 1
    /\ invocations[1].status = "streaming"
    /\ ~HasSession(sessions, invocations[1].sessionId)
    /\ invocations[1].accumulatedText # ""

\* C11: deleting the current session when it is the only one leaves, after the
\* effect has run, exactly one session: it has an id never used before, the title
\* "New Chat" and no messages, and it is the current session.
C11_DeleteOnlySession ==
    [][\A id \in SessionIds(sessions) :
           DeleteSession(id) /\ Len(sessions) = 1 /\ id = currentSessionId =>
               /\ Len(sessions') = 1
               /\ sessions'[1].id = nextId
               /\ sessions'[1].id # id
               /\ nextId' = nextId + 1
               /\ sessions'[1].title = NewChat
               /\ sessions'[1].messages = <<>>
               /\ currentSessionId' = sessions'[1].id
      ]_vars

\* C11 witness: the session of the first render was deleted and the session the
\* effect created (the second id drawn) is the only one, empty and current.
C11_Witness ==
    /\ lastStep = "DeleteSession"
    /\ nextId = 3
    /\ sessions = <<NewSession(2, now)>>
    /\ currentSessionId = 2

\* C12: deleting a session that is not the current one removes that session and
\* nothing else: currentSessionId stays, and every other session is stored as it
\* was (id, title, messages, updatedAt), in the same order.
C12_DeleteOtherSession ==
    [][\A id \in SessionIds(sessions) :
           DeleteSession(id) /\ id # currentSessionId =>
               /\ currentSessionId' = currentSessionId
               /\ SessionIds(sessions') = SessionIds(sessions) \ {id}
               /\ Len(sessions') = Len(sessions) - 1
               /\ \A sid \in SessionIds(sessions') :
                      /\ FindSession(sessions', sid) = FindSession(sessions, sid)
                      /\ \A oid \in SessionIds(sessions') :
                             IndexOfId(sessions', sid) < IndexOfId(sessions', oid)
                                 <=> IndexOfId(sessions, sid) < IndexOfId(sessions, oid)
      ]_vars

\* C12 witness: of three sessions the first stored one was deleted while the last
\* stored one, which holds a conversation, was current; it still is.
C12_Witness ==
    /\ lastStep = "DeleteSession"
    /\ Len(sessions) = 2
    /\ currentSessionId = sessions[2].id
    /\ Len(sessions[2].messages) = 2
    /\ nextId = 6

\* C13 (as claimed): when the current session is deleted and others remain, the
\* session that becomes current has the greatest updatedAt of the remaining ones.
C13_NextCurrentIsMostRecent ==
    [][\A id \in SessionIds(sessions) :
           DeleteSession(id) /\ id = currentSessionId /\ Len(sessions) > 1 =>
               /\ HasSession(sessions', currentSessionId')
               /\ \A k \in 1..Len(sessions') :
                      sessions'[k].updatedAt
                          <= FindSession(sessions', currentSessionId').updatedAt
      ]_vars

C15_CreateSession ==
    [][/\ CreateNewSession =>
              /\ Len(sessions') = Len(sessions) + 1
              /\ nextId \notin SessionIds(sessions) \cup AllMessageIds(sessions)
              /\ SessionIds(sessions') = SessionIds(sessions) \cup {nextId}
              /\ FindSession(sessions', nextId).title = NewChat
              /\ FindSession(sessions', nextId).messages = <<>>
              /\ currentSessionId' = nextId
              /\ sortedSessions(sessions')[1].id = nextId
              /\ \A sid \in SessionIds(sessions) :
                     FindSession(sessions', sid) = FindSession(sessions, sid)
       /\ LET r == createNewSession(<<>>, Null, nextId, now) IN
              /\ Len(r.sessions) = 1
              /\ r.sessions[1].title = NewChat
              /\ r.sessions[1].messages = <<>>
              /\ r.currentSessionId = r.sessions[1].id
      ]_vars

\* C15 witness: a third session was created after the clock had advanced, next to a
\* session that holds a conversation; it is current and first in the sidebar.
C15_Witness ==
    /\ lastStep = "CreateNewSession"
    /\ Len(sessions) = 3
    /\ now = 1
    /\ sessions[1] = NewSession(currentSessionId, now)
    /\ sortedSessions(sessions)[1].id = currentSessionId
    /\ \E k \in 2..3 : Len(sessions[k].messages) = 2

GroundingOf(m) == IF "groundingMetadata" \in DOMAIN m THEN m.groundingMetadata ELSE NoMeta

\* C17: a chunk that carries grounding metadata leaves the stored placeholder with
\* exactly that value, whatever was stored before, and when it carries no text the
\* placeholder's content and isThinking (and every other field) stay; no other step
\* changes a stored placeholder's groundingMetadata. So the stored value is always
\* the last one received, never a merge.
C17_GroundingLastWriteWins ==
    [][\A i \in InvocationIds :
           LET inv == invocations[i]
               before == Placeholders(sessions, inv)
               after == Placeholders(sessions', inv)
               grounded == \E in \in ChunkInputs : in[2] # NoMeta /\ Chunk(i, in[1], in[2])
           IN /\ \A in \in ChunkInputs :
                     Chunk(i, in[1], in[2]) /\ in[2] # NoMeta /\ before # {} =>
                         /\ after # {}
                         /\ \A m \in after :
                                /\ GroundingOf(m) = in[2]
                                /\ in[1] = "" =>
                                       \E b \in before :
                                           m = Spread(b, [groundingMetadata |-> in[2]])
              /\ ~grounded =>
                     \A m \in after : \A b \in before : GroundingOf(m) = GroundingOf(b)
      ]_vars

\* C17 witness: chunks without text have brought grounding metadata, "g2" last; the
\* placeholder stores it and is still empty and thinking.
C17_Witness ==
    /\ lastStep = "Chunk"
    /\ \E i \in InFlight :
           /\ invocations[i].deltas = <<>>
           /\ \E m \in Placeholders(sessions, invocations[i]) :
                  /\ GroundingOf(m) = "g2"
                  /\ m.content = ""
                  /\ m.isThinking = TRUE

\* C18: a chunk (text delta, grounding update or both), an error outcome or the
\* normal end of a call changes at most that call's placeholder in the session that
\* started it: currentSessionId and the list of sessions stay, every other session
\* is stored as it was, the invoking session keeps its id and title, and each of its
\* messages other than the placeholder is stored as it was, at the same position.
C18_EventFrame ==
    [][\A i \in InFlight :
           LET inv == invocations[i] IN
           \/ \E in \in ChunkInputs : Chunk(i, in[1], in[2])
           \/ StreamError(i)
           \/ StreamEnd(i)
           => /\ currentSessionId' = currentSessionId
              /\ Len(sessions') = Len(sessions)
              /\ \A k \in 1..Len(sessions) :
                     /\ sessions[k].id # inv.sessionId => sessions'[k] = sessions[k]
                     /\ sessions'[k].id = sessions[k].id
                     /\ sessions'[k].title = sessions[k].title
                     /\ Len(sessions'[k].messages) = Len(sessions[k].messages)
                     /\ \A j \in 1..Len(sessions[k].messages) :
                            /\ sessions'[k].messages[j].id = sessions[k].messages[j].id
                            /\ sessions[k].messages[j].id # inv.botMsgId =>
                                   sessions'[k].messages[j] = sessions[k].messages[j]
      ]_vars

\* C18 witness: with two sessions stored, a call of the session that is not current
\* failed; its placeholder shows the error text behind the untouched user message.
C18_Witness ==
    /\ lastStep = "StreamError"
    /\ Len(sessions) = 2
    /\ \E i \in InvocationIds :
           LET msgs == StoredMessages(sessions, invocations[i].sessionId) IN
           /\ invocations[i].status = "failed"
           /\ invocations[i].sessionId # currentSessionId
           /\ Len(msgs) = 2
           /\ msgs[1].role = "user"
           /\ msgs[1].content = invocations[i].message
           /\ msgs[2].id = invocations[i].botMsgId
           /\ msgs[2].content = ErrorText

\* C19: when a title request resolves, the session it was made for gets the title
\* and keeps its id, messages and updatedAt; every other session, the order of the
\* sessions, currentSessionId, the calls and the busy flag stay; and when that
\* session is no longer stored, the stored sessions stay as they are.
C19_TitleFrame ==
    [][\A k \in 1..Len(titleRequests), ok \in BOOLEAN, text \in TitleTexts :
           TitleResolve(k, ok, text) =>
               LET sid == titleRequests[k].sessionId IN
               /\ currentSessionId' = currentSessionId
               /\ invocations' = invocations
               /\ isLoading' = isLoading
               /\ Len(sessions') = Len(sessions)
               /\ \A j \in 1..Len(sessions) :
                      /\ sessions[j].id # sid => sessions'[j] = sessions[j]
                      /\ sessions[j].id = sid =>
                             /\ sessions'[j].title = generateTitle(ok, text)
                             /\ sessions'[j].id = sessions[j].id
                             /\ sessions'[j].messages = sessions[j].messages
                             /\ sessions'[j].updatedAt = sessions[j].updatedAt
               /\ ~HasSession(sessions, sid) => sessions' = sessions
      ]_vars

\* C19 witness: with two sessions stored, the title "T" arrived for the one that is
\* not current and holds a conversation; the other one is still called "New Chat".
C19_Witness ==
    /\ lastStep = "TitleResolve"
    /\ Len(sessions) = 2
    /\ \E k \in 1..2 :
           /\ sessions[k].id # currentSessionId
           /\ sessions[k].title = "T"
           /\ Len(sessions[k].messages) = 2
           /\ sessions[3 - k].title = NewChat

\* C20: while a title request and a call of the same session are both pending, the
\* title result and the call's next event give the same stored sessions in either
\* order, for every title result and every event (chunk, error, end); the title
\* result leaves the session's messages and the event leaves its title. As this
\* holds in every reachable state, every interleaving of the title result with the
\* stream's events ends with the same title and the same message list.
C20_TitleAndStreamCommute ==
    \A k \in 1..Len(titleRequests), i \in InFlight :
        titleRequests[k].sessionId = invocations[i].sessionId =>
            \A ok \in BOOLEAN, text \in TitleTexts :
                LET inv == invocations[i]
                    sid == inv.sessionId
                    Titled(ss) == updateSessionTitle(ss, sid, generateTitle(ok, text))
                    TitleKept(ss) ==
                        HasSession(ss, sid) =>
                            FindSession(ss, sid).title = FindSession(sessions, sid).title
                IN /\ StoredMessages(Titled(sessions), sid) = StoredMessages(sessions, sid)
                   /\ \A in \in ChunkInputs :
                          /\ Titled(forAwaitBody(sessions, inv, in[1], in[2]).sessions)
                                 = forAwaitBody(Titled(sessions), inv, in[1], in[2]).sessions
                          /\ TitleKept(forAwaitBody(sessions, inv, in[1], in[2]).sessions)
                   /\ Titled(onError(sessions, sid, inv.botMsgId))
                          = onError(Titled(sessions), sid, inv.botMsgId)
                   /\ TitleKept(onError(sessions, sid, inv.botMsgId))
                   /\ Titled(onEnd(sessions, sid, inv.botMsgId))
                          = onEnd(Titled(sessions), sid, inv.botMsgId)
                   /\ TitleKept(onEnd(sessions, sid, inv.botMsgId))

\* C20 witness: the title request of the first message is still pending while its
\* call has delivered a text delta and grounding metadata.
C20_Witness ==
    /\ lastStep = "Chunk"
    /\ Len(titleRequests) = 1
    /\ \E i \in InFlight :
           /\ titleRequests[1].sessionId = invocations[i].sessionId
           /\ invocations[i].deltas = <<"a">>
           /\ \E m \in Placeholders(sessions, invocations[i]) :
                  m.content = "a" /\ GroundingOf(m) = "g1"

\* the title requests made for a session and not yet resolved
TitleRequestsFor(reqs, sid) == {k \in 1..Len(reqs) : reqs[k].sessionId = sid}

\* C21: a title request is made only by a send into a session without messages, and
\* then exactly one, for that session; a send into a session with messages and an
\* edit make none; a session that has messages never gets back to none. Hence no
\* session is ever asked for a title twice: here, where no request resolves, no
\* session has two requests.
C21_TitleOnFirstMessageOnly ==
    [][/\ \A in \in SendInputs :
              HandleSendMessage(in[1], in[2]) =>
                  LET cs == currentSession(sessions, currentSessionId) IN
                  IF Len(cs.messages) = 0
                  THEN titleRequests' = Append(titleRequests, [sessionId |-> cs.id])
                  ELSE titleRequests' = titleRequests
       /\ \A c \in EditTexts : SaveEdit(c) => titleRequests' = titleRequests
       /\ Len(titleRequests') > Len(titleRequests) =>
              \E in \in SendInputs : HandleSendMessage(in[1], in[2])
       /\ \A sid \in SessionIds(sessions) \cap SessionIds(sessions') :
              StoredMessages(sessions, sid) # <<>> => StoredMessages(sessions', sid) # <<>>
       /\ \A sid \in SessionIds(sessions') :
              Cardinality(TitleRequestsFor(titleRequests', sid)) <= 1
      ]_vars

\* C21 witness: after a second send and an edit in the same session, the request of
\* its first message is still the only one.
C21_Witness ==
    /\ lastStep = "SaveEdit"
    /\ Len(invocations) = 3
    /\ Len(titleRequests) = 1
    /\ titleRequests[1].sessionId = currentSessionId

\* C22: a title request that fails or returns an empty text resolves to "New Chat"
\* and raises nothing: the step in which it resolves stores that title and leaves the
\* calls, the busy flag and the messages as they are. The send that makes the
\* request starts the main stream in the same step, and a stream in flight can end
\* or fail in every state, whether the title request is pending or resolved.
C22_TitleFailureIsSilent ==
    /\ [][/\ \A text \in TitleTexts : generateTitle(FALSE, text) = NewChat
          /\ generateTitle(TRUE, "") = NewChat
          /\ \A k \in 1..Len(titleRequests), ok \in BOOLEAN, text \in TitleTexts :
                 TitleResolve(k, ok, text) /\ (~ok \/ text = "") =>
                     LET sid == titleRequests[k].sessionId IN
                     /\ invocations' = invocations
                     /\ isLoading' = isLoading
                     /\ HasSession(sessions, sid) =>
                            /\ FindSession(sessions', sid).title = NewChat
                            /\ StoredMessages(sessions', sid) = StoredMessages(sessions, sid)
          /\ \A in \in SendInputs :
                 HandleSendMessage(in[1], in[2]) =>
                     /\ Len(invocations') = Len(invocations) + 1
                     /\ invocations'[Len(invocations')].status = "streaming"
         ]_vars
    /\ [](\A i \in InFlight : ENABLED StreamEnd(i) /\ ENABLED StreamError(i))

\* C22 witness: the title request fell back to "New Chat" while the call of the same
\* session had delivered a delta and was still in flight.
C22_Witness ==
    /\ lastStep = "TitleResolve"
    /\ titleRequests = <<>>
    /\ \E i \in InFlight :
           /\ Len(invocations[i].deltas) = 1
           /\ FindSession(sessions, invocations[i].sessionId).title = NewChat

\* ---------------------------------------------------------------------- C23
\* C23: the item stored under 'chat_sessions' always catches up with sessions:
\* between handlers it is the serialization of the current sessions, and a step
\* changes it exactly when it changes sessions (creation, deletion, send, edit,
\* text chunk, grounding metadata, error, title).
C23_StoredCatchesUp ==
    /\ [](stored = JSONstringify(sessions))
    /\ [][(sessions' # sessions) <=> (stored' # stored)]_vars

\* a title arrived for a session whose streamed reply is stored, and the item holds
\* the serialization of these sessions
C23_Witness ==
    /\ lastStep = "TitleResolve"
    /\ \E k \in 1..Len(sessions) :
          /\ sessions[k].title = "T"
          /\ \E j \in 1..Len(sessions[k].messages) :
                /\ sessions[k].messages[j].role = "model"
                /\ sessions[k].messages[j].content = "a"
                /\ GroundingOf(sessions[k].messages[j]) = "g1"
    /\ Len(sessions) = 2
    /\ stored = JSONstringify(sessions)

\* ---------------------------------------------------------------------- C24
\* C24: a start over a missing or damaged item (no item, the empty text, text
\* that is no JSON, JSON that is no session list) loads the empty list and is
\* never fatal: right after startup the application is mounted and holds either the
\* stored list or one fresh, current session without messages.
C24_CorruptStartsEmpty ==
    lastStep = "Init" =>
        /\ ~fatal
        /\ \/ sessions \in StoredLists
           \/ /\ sessions = <<NewSession(1, 0)>>
              /\ currentSessionId = 1
              /\ stored = JSONstringify(sessions)

\* ---------------------------------------------------------------------- C25
\* C25 (as claimed): every stored message whose isThinking is true is the
\* placeholder, of role "model", of a call whose stream has neither completed nor
\* failed; no user message and no message of a finished call has isThinking true.
C25_ThinkingOnlyInFlight ==
    \A k \in 1..Len(sessions) :
        \A j \in 1..Len(sessions[k].messages) :
            LET m == sessions[k].messages[j] IN
            ("isThinking" \in DOMAIN m /\ m.isThinking) =>
                /\ m.role = "model"
                /\ \E i \in InFlight :
                      /\ invocations[i].sessionId = sessions[k].id
                      /\ invocations[i].botMsgId = m.id

\* ---------------------------------------------------------------------- C26
\* call i has ended, normally or with an error
Finished(i) == i \in InvocationIds /\ invocations[i].status \in {"completed", "failed"}

\* C26: a call whose stream terminates lowers the busy flag it raised: the step
\* that starts a call raises isLoading; every call in flight is eventually finished
\* with isLoading false, the step that ends it being the one that lowers the flag,
\* whether or not its session is still stored or current; and while no call is in
\* flight isLoading is false.
C26_BusyEventuallyLowered ==
    /\ \A i \in 1..LiveMaxInvocations : Streaming(i) ~> (Finished(i) /\ ~isLoading)
    /\ [][/\ Len(invocations') > Len(invocations) => isLoading'
          /\ \A i \in InFlight :
                 (StreamEnd(i) \/ StreamError(i)) => ~isLoading' /\ Finished(i)']_vars
    /\ [](InFlight = {} => ~isLoading)

\* a stream ended after its session had been deleted, and the busy flag is down
C26_Witness ==
    /\ lastStep \in {"StreamEnd", "StreamError"}
    /\ \E i \in InvocationIds :
          /\ Finished(i)
          /\ ~HasSession(sessions, invocations[i].sessionId)
    /\ InFlight = {}
    /\ ~isLoading

\* ---------------------------------------------------------------------- C27
\* C27: an empty registry never persists. Between handlers at least one session is
\* stored and the current id is the id of a stored one; a start that finds no item
\* or the empty list stored loads no session, and the effect then creates one
\* session and makes it current; a deletion that removes the last session ends
\* with exactly one session, fresh, without messages and current, with no further
\* user action.
C27_RegistryNeverStaysEmpty ==
    /\ [](/\ Len(sessions) >= 1
          /\ HasSession(sessions, currentSessionId)
          /\ \A saved \in {NoItem, JSONstringify(<<>>)} :
                /\ loadSessions(saved) = [sessions |-> <<>>, renders |-> TRUE]
                /\ EnsureSessionEffect(-1, loadSessions(saved).sessions, Null, 1, 0)
                       = [sessions |-> <<NewSession(1, 0)>>, currentSessionId |-> 1,
                          used |-> 1])
    /\ [][\A id \in SessionIds(sessions) :
              DeleteSession(id) /\ deleteFilter(sessions, id) = <<>> =>
                  /\ sessions' = <<NewSession(nextId, now)>>
                  /\ currentSessionId' = nextId
                  /\ nextId' = nextId + 1]_vars

\* the last session was deleted after a conversation had been started and the
\* clock had advanced: one fresh session is stored and current
C27_Witness ==
    /\ lastStep = "DeleteSession"
    /\ now = 1
    /\ invocations # <<>>
    /\ nextId >= 6
    /\ sessions = <<NewSession(nextId - 1, 1)>>
    /\ currentSessionId = nextId - 1

\* ---------------------------------------------------------------------- C28
\* text begins with prefix
StartsWith(text, prefix) ==
    Len(text) >= Len(prefix) /\ SubSeq(text, 1, Len(prefix)) = prefix

\* C28 (as claimed): when the adapter throws after text was accumulated, the stored
\* placeholder's content still begins with that text.
C28_PartialOutputKept ==
    [][\A i \in InFlight :
          StreamError(i) /\ invocations[i].accumulatedText # "" =>
              \A m \in Placeholders(sessions', invocations[i]) :
                  StartsWith(m.content, invocations[i].accumulatedText)]_vars

\* C28 (amended): when the adapter throws, the stored placeholder's content, which
\* was the text accumulated so far, is replaced as a whole by the error text,
\* whether or not text had accumulated; accumulated text is then shown nowhere in
\* the placeholder and remains only in the local accumulator of the call.
C28_PartialOutputReplaced ==
    [][\A i \in InFlight :
          StreamError(i) =>
              LET acc == invocations[i].accumulatedText IN
              /\ \A m \in Placeholders(sessions, invocations[i]) : m.content = acc
              /\ \A m \in Placeholders(sessions', invocations[i]) :
                     /\ m.content = ErrorText
                     /\ acc # "" => ~StartsWith(m.content, acc)
              /\ invocations'[i].accumulatedText = acc]_vars

\* the adapter threw after the deltas "a" and "b": the stored placeholder shows the
\* error text and nothing of "ab"
C28_Witness ==
    /\ lastStep = "StreamError"
    /\ \E i \in InvocationIds :
          /\ invocations[i].status = "failed"
          /\ invocations[i].deltas = <<"a", "b">>
          /\ invocations[i].accumulatedText = "ab"
          /\ Placeholders(sessions, invocations[i]) # {}
          /\ \A m \in Placeholders(sessions, invocations[i]) : m.content = ErrorText

\* ---------------------------------------------------------------------- C29
\* C29: no retry. A call is one stream: it is started by a send or an edit, which
\* starts exactly one; the end or the failure of its stream finishes it; a
\* finished call never changes or streams again, and a call in flight keeps the
\* request it was started with. So a stream is opened only by the user's send or
\* edit.
C29_NoAutomaticRetry ==
    [][/\ Len(invocations') >= Len(invocations)
       /\ Len(invocations') # Len(invocations) =>
              /\ lastStep' \in {"HandleSendMessage", "SaveEdit"}
              /\ Len(invocations') = Len(invocations) + 1
              /\ invocations'[Len(invocations')].status = "streaming"
       /\ \A i \in InvocationIds :
              /\ Finished(i) => invocations'[i] = invocations[i]
              /\ (StreamEnd(i) \/ StreamError(i)) => Finished(i)'
              /\ invocations'[i].status = "streaming" => invocations[i].status = "streaming"
              /\ \A f \in {"sessionId", "botMsgId", "history", "message"} :
                     invocations'[i][f] = invocations[i][f]]_vars

\* after a call failed the user sent again: the failed call is as it ended and one
\* new call streams, with the failed exchange in its history
C29_Witness ==
    /\ lastStep = "HandleSendMessage"
    /\ Len(invocations) = 2
    /\ invocations[1].status = "failed"
    /\ invocations[2].status = "streaming"
    /\ \E k \in 1..Len(invocations[2].history) :
          /\ invocations[2].history[k].id = invocations[1].botMsgId
          /\ invocations[2].history[k].content = ErrorText

\* ---------------------------------------------------------------------- C30
\* a step in which a send or an edit started a call
StartsCall ==
    /\ lastStep' \in {"HandleSendMessage", "SaveEdit"}
    /\ Len(invocations') = Len(invocations) + 1

\* the session a call just started targets
Targeted == invocations'[Len(invocations')].sessionId

\* display is ss in descending order of updatedAt, sessions of equal updatedAt in
\* their order in ss
IsDisplayOrderOf(display, ss) ==
    /\ Len(display) = Len(ss)
    /\ \A k \in 1..Len(ss) : \E j \in 1..Len(display) : display[j] = ss[k]
    /\ \A j \in 1..(Len(display) - 1) :
          \/ display[j].updatedAt > display[j + 1].updatedAt
          \/ /\ display[j].updatedAt = display[j + 1].updatedAt
             /\ IndexOfId(ss, display[j].id) < IndexOfId(ss, display[j + 1].id)

\* a send or an edit stamps the targeted session with the current time, stamps no
\* other session and leaves the stored order
StampsTargetOnly ==
    /\ Len(sessions') = Len(sessions)
    /\ \A k \in 1..Len(sessions) :
          /\ sessions'[k].id = sessions[k].id
          /\ sessions'[k].updatedAt =
                 IF sessions[k].id = Targeted THEN now ELSE sessions[k].updatedAt

\* C30 (as claimed): every send and every edit stamps the targeted session, and no
\* other, with the current time, and that session is then first in the display
\* order; the display order is the sessions by descending updatedAt, the stored
\* order being left as it is.
C30_UpdatedSessionFirst ==
    /\ [](IsDisplayOrderOf(sortedSessions(sessions), sessions))
    /\ [][StartsCall =>
             /\ StampsTargetOnly
             /\ sortedSessions(sessions')[1].id = Targeted]_vars

\* C30 (amended): every send and every edit stamps the targeted session, and no
\* other, with the current time and leaves the stored order; no session then has a
\* later updatedAt, and the targeted session is first in the display order unless a
\* session stored before it has the same updatedAt, in which case the first stored
\* of these is first. The display order is the sessions by descending updatedAt,
\* ties in stored order.
C30_UpdatedSessionFirstUnlessTied ==
    /\ [](IsDisplayOrderOf(sortedSessions(sessions), sessions))
    /\ [][StartsCall =>
             LET at == IndexOfId(sessions', Targeted)
                 tied == {j \in 1..(at - 1) : sessions'[j].updatedAt = now}
                 first == sortedSessions(sessions')[1]
             IN /\ StampsTargetOnly
                /\ \A k \in 1..Len(sessions') : sessions'[k].updatedAt <= now
                /\ first.updatedAt = now
                /\ tied = {} => first.id = Targeted
                /\ tied # {} => /\ first.id # Targeted
                                /\ IndexOfId(sessions', first.id) \in tied
                                /\ \A j \in tied : IndexOfId(sessions', first.id) <= j]_vars

\* a send at time 1 into the session stored second, whose updatedAt was 0 as that
\* of the first: it is now displayed first and still stored second
C30_Witness ==
    /\ lastStep = "HandleSendMessage"
    /\ now = 1
    /\ Len(sessions) = 2
    /\ sessions[1].updatedAt = 0
    /\ sessions[2].updatedAt = 1
    /\ currentSessionId = sessions[2].id
    /\ sortedSessions(sessions) = <<sessions[2], sessions[1]>>

\* ---------------------------------------------------------------------- C31
\* C31: "Save & Submit" replaces, in the edited message, the content by the new text
\* and the timestamp by the time of the edit and nothing else: the message keeps its
\* id, its role and its other fields, and the messages stored before it are kept as
\* they are, in their order.
C31_EditKeepsIdentity ==
    [][\A c \in EditTexts :
          SaveEdit(c) =>
              LET cs == currentSession(sessions, currentSessionId)
                  old == cs.messages
                  idx == IndexOfId(old, editingId)
                  new == StoredMessages(sessions', cs.id)
              IN /\ idx >= 1
                 /\ DOMAIN new[idx] = DOMAIN old[idx]
                 /\ \A f \in DOMAIN old[idx] \ {"content", "timestamp"} :
                        new[idx][f] = old[idx][f]
                 /\ new[idx].content = c
                 /\ new[idx].timestamp = now
                 /\ \A k \in 1..(idx - 1) : new[k] = old[k]
                 /\ \A t \in 0..(MaxClock + 1) :
                        LET u == updatedMsg(old[idx], c, t) IN
                        /\ u.id = old[idx].id
                        /\ u.role = old[idx].role
                        /\ u.timestamp = t
                        /\ u.content = c
                        /\ messagesWithUpdated(old, idx, c, t)
                               = Append(SubSeq(old, 1, idx - 1), u)]_vars

\* the third message of a conversation was edited: it is a user message with its
\* id, the new text, and the exchange before it is as it was
C31_Witness ==
    /\ lastStep = "SaveEdit"
    /\ Len(displayedMessages) = 4
    /\ displayedMessages[1].content = "hi"
    /\ displayedMessages[2].role = "model"
    /\ displayedMessages[2].content = "a"
    /\ displayedMessages[3] = [id |-> 4, role |-> "user", content |-> "hey", timestamp |-> 0]

\* ---------------------------------------------------------------------- C32
\* C32: handleEditMessage called with an id that no message of the displayed
\* session has (an id never drawn, the id of a session, the id of a message of
\* another session or of a discarded message) changes nothing: sessions and the
\* stored item stay as they are, no id is drawn, no call is started, the busy flag
\* and the current id are left.
C32_EditUnknownIdIsNoOp ==
    [][\A id \in 1..(PropMaxIds + 2), c \in EditTexts :
          EditMessage(id, c) /\ id \notin MessageIds(displayedMessages) =>
              UNCHANGED <<sessions, stored, fatal, currentSessionId, nextId, isLoading,
                          invocations, titleRequests, editingId>>]_vars

\* handleEditMessage was called while an empty session was displayed and another
\* session held a conversation: no call was started beyond the one that had ended
C32_Witness ==
    /\ lastStep = "EditMessage"
    /\ Len(sessions) = 2
    /\ currentSessionId = sessions[1].id
    /\ sessions[1].messages = <<>>
    /\ Len(sessions[2].messages) = 2
    /\ Len(invocations) = 1
    /\ invocations[1].status = "completed"
    /\ ~isLoading

\* ---------------------------------------------------------------------- C33
\* C33: the placeholder a call stores has isReasoning true exactly when, as the call
\* starts, the model is PRO and enableThinking is on (so for FLASH it is false
\* whatever the toggle is), and it keeps that value: stream events spread it over,
\* and a change of the model or of a toggle changes no session.
C33_ReasoningFixedAtStart ==
    /\ [](\A i \in InvocationIds :
              \A m \in Placeholders(sessions, invocations[i]) :
                  /\ m.isReasoning
                         = (invocations[i].model = PRO /\ invocations[i].enableThinking)
                  /\ invocations[i].model = FLASH => ~m.isReasoning)
    /\ [][/\ Len(invocations') = Len(invocations) + 1 =>
                 LET inv == invocations'[Len(invocations')] IN
                 /\ inv.model = currentModel
                 /\ inv.enableThinking = enableThinking
                 /\ \E m \in Placeholders(sessions', inv) :
                        m.isReasoning = (currentModel = PRO /\ enableThinking)
          /\ lastStep' \in {"SetModel", "ToggleSearch", "ToggleThinking"} =>
                 sessions' = sessions /\ invocations' = invocations]_vars

\* a call started on PRO with thinking on; the model was then set to FLASH and a
\* chunk arrived: the placeholder still has isReasoning true
C33_Witness ==
    /\ lastStep = "Chunk"
    /\ currentModel = FLASH
    /\ enableThinking
    /\ Len(invocations) = 1
    /\ invocations[1].model = PRO
    /\ \E m \in Placeholders(sessions, invocations[1]) :
          m.isReasoning /\ m.content = "a"

\* ------------------------------------------------------- the adapter's request
ThinkingBudget == 16000   \* thinkingBudget for PRO with thinking enabled

\* formatHistory
formatHistory(messages) ==
    [k \in 1..Len(messages) |->
        [role |-> messages[k].role, parts |-> <<[text |-> messages[k].content]>>]]

\* tools: [{ googleSearch: {} }] if enableSearch
tools(search) == IF search THEN <<"googleSearch">> ELSE <<>>

\* faulty variant: the budget is set whenever thinking is enabled, whatever the model
thinkingConfig_AnyModel(model, thinking) ==
    IF thinking THEN <<[thinkingBudget |-> ThinkingBudget]>>
    ELSE IF model = PRO THEN <<[thinkingBudget |-> 0]>>
    ELSE <<>>

\* thinkingConfig: an optional value, <<>> for undefined
thinkingConfig(model, thinking) ==
    IF thinking /\ model = PRO THEN <<[thinkingBudget |-> ThinkingBudget]>>
    ELSE IF ~thinking /\ model = PRO THEN <<[thinkingBudget |-> 0]>>
    ELSE <<>>

\* the argument of ai.models.generateContentStream for a call with options inv
\* (config.tools is undefined, <<>>, for an empty tools array)
generateContentRequest(inv) ==
    [model |-> inv.model,
     contents |-> Append(formatHistory(inv.history),
                         [role |-> "user", parts |-> <<[text |-> inv.message]>>]),
     config |-> [tools |-> tools(inv.enableSearch),
                 thinkingConfig |-> thinkingConfig(inv.model, inv.enableThinking)]]

C36_EventsAfterDeletionChangeNothing ==
    [][/\ \A i \in InFlight :
              (/\ ~HasSession(sessions, invocations[i].sessionId)
               /\ \/ \E in \in ChunkInputs : Chunk(i, in[1], in[2])
                  \/ StreamError(i)
                  \/ StreamEnd(i))
              => /\ sessions' = sessions
                 /\ stored' = stored
                 /\ currentSessionId' = currentSessionId
       /\ \A id \in SessionIds(sessions') : id \in SessionIds(sessions) \/ id >= nextId
      ]_vars

\* the only session was deleted while its call was in flight, the effect created a
\* fresh one, a text chunk arrived and then the stream failed:
\* the fresh session is the only one and holds no message
C36_Witness ==
    /\ lastStep = "StreamError"
    /\ Len(invocations) = 1
    /\ invocations[1].status = "failed"
    /\ invocations[1].accumulatedText = "a"
    /\ ~HasSession(sessions, invocations[1].sessionId)
    /\ Len(sessions) = 1
    /\ sessions[1].messages = <<>>
    /\ sessions[1].title = NewChat

\* ---------------------------------------------------------------------- C37
\* C37: when an edit has discarded the placeholder of a call still in flight, the
\* later events of that call change no message: sessions stay as they are, so the
\* edited message and the placeholder of the newer call are untouched; a
\* placeholder that left its session never returns; and the stored placeholder of
\* any call that has not failed holds the concatenation of that call's own deltas.
C37_DiscardedStreamChangesNothing ==
    /\ [][\A i \in InvocationIds :
              LET inv == invocations[i] IN
              /\ (/\ Streaming(i)
                  /\ HasSession(sessions, inv.sessionId)
                  /\ Placeholders(sessions, inv) = {}
                  /\ \/ \E in \in ChunkInputs : Chunk(i, in[1], in[2])
                     \/ StreamError(i)
                     \/ StreamEnd(i))
                 => sessions' = sessions /\ stored' = stored
              /\ (Len(invocations') = Len(invocations) /\ Placeholders(sessions, inv) = {})
                 => Placeholders(sessions', inv) = {}]_vars
    /\ [](\A i \in InvocationIds :
              invocations[i].status # "failed" =>
                  \A m \in Placeholders(sessions, invocations[i]) :
                      m.content = Concat(invocations[i].deltas))

\* after a first exchange, a send was made while an edit box was open, the edit
\* was then saved while the
\* send's call was in flight, and a chunk of that older call arrived afterwards:
\* its placeholder is not stored and the newer call's placeholder is still empty
C37_Witness ==
    /\ lastStep = "Chunk"
    /\ Len(invocations) = 3
    /\ invocations[1].status = "completed"
    /\ LET older == invocations[Len(invocations) - 1]
           newer == invocations[Len(invocations)]
       IN /\ older.status = "streaming"
          /\ older.deltas = <<"a">>
          /\ Placeholders(sessions, older) = {}
          /\ newer.status = "streaming"
          /\ newer.deltas = <<>>
          /\ \E m \in Placeholders(sessions, newer) : m.content = "" /\ m.isThinking

\* ---------------------------------------------------------------------- C38
\* the ids of the sessions in the order of the sidebar
DisplayIds(ss) == [k \in 1..Len(sortedSessions(ss)) |-> sortedSessions(ss)[k].id]

\* the steps that may change the order of the sidebar
OrderingSteps == {"HandleSendMessage", "SaveEdit", "CreateNewSession", "DeleteSession"}

\* C38: a chunk (text delta, grounding update or both), an error outcome or the
\* normal end of a call leaves the updatedAt of every stored session, the invoking
\* one included, and the order of the sidebar as they were; the order of the
\* sidebar changes only in a step that is a send, a saved edit, the creation or the
\* deletion of a session.
C38_EventsKeepTimestamps ==
    /\ [][\A i \in InFlight :
              \/ \E in \in ChunkInputs : Chunk(i, in[1], in[2])
              \/ StreamError(i)
              \/ StreamEnd(i)
              => /\ Len(sessions') = Len(sessions)
                 /\ \A k \in 1..Len(sessions) :
                        /\ sessions'[k].id = sessions[k].id
                        /\ sessions'[k].updatedAt = sessions[k].updatedAt
                 /\ DisplayIds(sessions') = DisplayIds(sessions)]_vars
    /\ [][DisplayIds(sessions') # DisplayIds(sessions) => lastStep' \in OrderingSteps]_vars

\* a text delta with grounding metadata arrived at time 1 for the call of the
\* session shown second in the sidebar, which was last stamped at time 0 as the
\* session shown first: the delta is stored and the session is still second
C38_Witness ==
    /\ lastStep = "Chunk"
    /\ now = 1
    /\ Len(sessions) = 2
    /\ sessions[1].updatedAt = 0
    /\ sessions[2].updatedAt = 0
    /\ DisplayIds(sessions) = <<sessions[1].id, sessions[2].id>>
    /\ \E i \in InFlight :
           /\ invocations[i].sessionId = sessions[2].id
           /\ invocations[i].deltas = <<"a">>
           /\ \E m \in Placeholders(sessions, invocations[i]) :
                  /\ m.content = "a"
                  /\ GroundingOf(m) = "g1"

====
